---- MODULE Spec2Model ----
(***************************************************************************)
(* A model of scripts/scrape_openai_news.py: the three commands fetch,     *)
(* phase <n> and merge, and the pure helpers they rest on                  *)
(* (classify_article, year_of, _parse_date, _sort_key).                    *)
(*                                                                         *)
(* Python strings are sequences of one-character strings, so that          *)
(* substring search, lowercasing and the regular expressions of the source *)
(* are computed character by character.  Two non-ASCII characters of the   *)
(* keyword table are written "U+00B7" and "U+2019"; the five Chinese       *)
(* category names are written in pinyin (RongZi, HeZuo, YanJiu, ZhengCe,   *)
(* ChanPin).  Python dicts are functions whose DOMAIN is the set of keys.  *)
(***************************************************************************)
EXTENDS Integers, Sequences, FiniteSets, TLC

\* Python's None, where a string is expected: no string has this value.
None == <<"None">>

\* -------------------------------------------------------------------- state

VARIABLES
    \* one call of classify_article
    c_pc,          \* "call": before the call; "done": returned
    c_title,       \* title
    c_url,         \* url
    c_category,    \* the value returned
    \* cmd_fetch
    f_pc,          \* "loop": at the head of the while loop; "done": returned
    f_url,         \* url
    f_page,        \* page
    all_articles,  \* all_articles
    seen,          \* seen
    site,          \* the site crawled
    f_requests,    \* the urls requested so far, in order
    f_end,         \* why the loop ended
    \* the files of SCRIPT_DIR
    raw_file,      \* RAW_PATH
    phase_files,   \* phase_path(n), n = 1..4
    \* cmd_phase, invoked for phase 1, 2, 3, 4 in turn
    env_key,       \* the environment's SILICONFLOW_API_KEY, None when unset
    p_step,        \* the phase the workflow invokes next (5: all invoked)
    p_num,         \* phase_num of the latest invocation
    p_exit,        \* its exit status (-1 before the first)
    p_in_range,    \* in_range of the latest run of each phase
    p_classified,  \* classified, as it was before translation
    p_replies,     \* what the translation endpoint answered, per request
    p_sent,        \* the titles sent for translation, in order
    \* cmd_merge
    m_pc,          \* "call": before the call; "done": returned or raised
    output_path,   \* OUTPUT_PATH
    m_files,       \* the files of contrib/examples, by absolute path
    m_result,      \* "ok" or "AssertionError"
    m_read,        \* the phase files read, in order
    m_skipped      \* the titles of the articles skipped for their date

classifyVars == <<c_pc, c_title, c_url, c_category>>
fetchVars    == <<f_pc, f_url, f_page, all_articles, seen, site, f_requests, f_end>>
phaseVars    == <<env_key, p_step, p_num, p_exit, p_in_range, p_classified,
                  p_replies, p_sent>>
mergeVars    == <<m_pc, output_path, m_files, m_result, m_read, m_skipped>>
vars == <<classifyVars, fetchVars, raw_file, phase_files, phaseVars, mergeVars>>

\* ------------------------------------------------------------------ strings

Digits == {"0","1","2","3","4","5","6","7","8","9"}
UpperLetters == {"A","B","C","D","E","F","G","H","I","J","K","L","M",
                 "N","O","P","Q","R","S","T","U","V","W","X","Y","Z"}
LowerLetters == {"a","b","c","d","e","f","g","h","i","j","k","l","m",
                 "n","o","p","q","r","s","t","u","v","w","x","y","z"}
Whitespace == {" "}

\* str.lower() on one character.
LowerChar(c) ==
    CASE c = "A" -> "a" [] c = "B" -> "b" [] c = "C" -> "c" [] c = "D" -> "d"
      [] c = "E" -> "e" [] c = "F" -> "f" [] c = "G" -> "g" [] c = "H" -> "h"
      [] c = "I" -> "i" [] c = "J" -> "j" [] c = "K" -> "k" [] c = "L" -> "l"
      [] c = "M" -> "m" [] c = "N" -> "n" [] c = "O" -> "o" [] c = "P" -> "p"
      [] c = "Q" -> "q" [] c = "R" -> "r" [] c = "S" -> "s" [] c = "T" -> "t"
      [] c = "U" -> "u" [] c = "V" -> "v" [] c = "W" -> "w" [] c = "X" -> "x"
      [] c = "Y" -> "y" [] c = "Z" -> "z" [] OTHER -> c

\* str.lower().
Lower(s) == [i \in 1..Len(s) |-> LowerChar(s[i])]

\* s.startswith(p).
StartsWith(s, p) == Len(s) >= Len(p) /\ SubSeq(s, 1, Len(p)) = p

\* Python's  kw in text  for strings.
Contains(kw, text) ==
    \E i \in 1..(Len(text) - Len(kw) + 1) : SubSeq(text, i, i + Len(kw) - 1) = kw

\* int() of one decimal digit.
DigitVal(c) ==
    CASE c = "0" -> 0 [] c = "1" -> 1 [] c = "2" -> 2 [] c = "3" -> 3 [] c = "4" -> 4
      [] c = "5" -> 5 [] c = "6" -> 6 [] c = "7" -> 7 [] c = "8" -> 8 [] c = "9" -> 9

\* int() of a string of decimal digits.
RECURSIVE StrToInt(_)
StrToInt(s) ==
    IF s = <<>> THEN 0
    ELSE 10 * StrToInt(SubSeq(s, 1, Len(s) - 1)) + DigitVal(s[Len(s)])

\* The last position of the run of characters of S that starts at position i
\* of s (i - 1 when s[i] is not in S).
RECURSIVE RunEnd(_, _, _)
RunEnd(s, i, S) ==
    IF i <= Len(s) /\ s[i] \in S THEN RunEnd(s, i + 1, S) ELSE i - 1

\* a or b  on strings (the empty string is falsy).
Or(a, b) == IF a # <<>> THEN a ELSE b

\* The set of sequences over S of length at most n.
SeqsUpTo(S, n) == UNION {[1..k -> S] : k \in 0..n}

\* --------------------------------------------- classification rules (65-97)

CATEGORY_RULES == <<
    <<<<"R","o","n","g","Z","i">>, <<
        <<"f","u","n","d","i","n","g">>, <<"i","n","v","e","s","t","m","e","n","t">>,
        <<"i","n","v","e","s","t">>, <<"r","a","i","s","e","s">>,
        <<"v","a","l","u","a","t","i","o","n">>, <<"b","i","l","l","i","o","n">>,
        <<"m","i","l","l","i","o","n">>, <<"c","a","p","i","t","a","l">>,
        <<"f","i","n","a","n","c","i","n","g">>, <<"s","e","c","u","r","e","d">>,
        <<"s","e","r","i","e","s"," ">>, <<"r","o","u","n","d"," ">> >> >>,
    <<<<"H","e","Z","u","o">>, <<
        <<"p","a","r","t","n","e","r","s","h","i","p">>,
        <<"p","a","r","t","n","e","r"," ","w","i","t","h">>,
        <<"a","g","r","e","e","m","e","n","t"," ","w","i","t","h">>,
        <<"c","o","l","l","a","b","o","r","a","t","i","o","n"," ","w","i","t","h">>,
        <<"t","e","a","m","s"," ","w","i","t","h">>,
        <<"w","o","r","k","s"," ","w","i","t","h">>, <<"i","n","t","e","g","r","a","t">>,
        <<"m","i","c","r","o","s","o","f","t">>, <<"a","p","p","l","e">>,
        <<"s","o","f","t","b","a","n","k">>, <<"o","r","a","c","l","e">>,
        <<"s","a","l","e","s","f","o","r","c","e">>, <<"n","v","i","d","i","a">>,
        <<"a","m","a","z","o","n">>, <<"g","o","o","g","l","e">>, <<"l","g"," ">>,
        <<"a","r","m"," ">> >> >>,
    <<<<"Y","a","n","J","i","u">>, <<
        <<"r","e","s","e","a","r","c","h">>,
        <<"t","e","c","h","n","i","c","a","l"," ","r","e","p","o","r","t">>,
        <<"a","r","x","i","v">>, <<"w","e"," ","t","r","a","i","n","e","d">>,
        <<"b","r","e","a","k","t","h","r","o","u","g","h">>, <<"s","c","a","l","i","n","g">>,
        <<"a","l","i","g","n","m","e","n","t">>,
        <<"s","u","p","e","r","a","l","i","g","n","m","e","n","t">>,
        <<"i","n","t","e","r","p","r","e","t","a","b","i","l","i","t","y">>,
        <<"e","m","e","r","g","e","n","t">>, <<"m","u","l","t","i","m","o","d","a","l">>,
        <<"r","e","i","n","f","o","r","c","e","m","e","n","t"," ","l","e","a","r","n","i","n","g">>,
        <<"p","r","e","p","a","r","e","d","n","e","s","s">> >> >>,
    <<<<"Z","h","e","n","g","C","e">>, <<
        <<"s","a","f","e","t","y">>, <<"g","o","v","e","r","n","a","n","c","e">>,
        <<"p","o","l","i","c","y">>, <<"r","e","g","u","l","a","t","i","o","n">>,
        <<"c","o","n","g","r","e","s","s","i","o","n","a","l">>,
        <<"g","o","v","e","r","n","m","e","n","t">>,
        <<"l","e","g","i","s","l","a","t","i","o","n">>, <<"s","e","n","a","t","e">>,
        <<"c","o","n","g","r","e","s","s">>,
        <<"d","e","m","o","c","r","a","t","i","c"," ","i","n","p","u","t","s">>,
        <<"e","x","e","c","u","t","i","v","e"," ","o","r","d","e","r">>,
        <<"a","i"," ","a","c","t">>, <<"b","o","a","r","d"," ","o","f">> >> >>,
    <<<<"C","h","a","n","P","i","n">>, <<
        <<"i","n","t","r","o","d","u","c","i","n","g">>, <<"l","a","u","n","c","h">>,
        <<"n","e","w"," ","m","o","d","e","l">>, <<"a","v","a","i","l","a","b","l","e">>,
        <<"r","e","l","e","a","s","i","n","g">>, <<"r","e","l","e","a","s","e">>,
        <<"c","h","a","t","g","p","t">>, <<"g","p","t","-">>, <<"d","a","l","l","-","e">>,
        <<"d","a","l","l","U+00B7","e">>, <<"w","h","i","s","p","e","r">>, <<"s","o","r","a">>,
        <<"c","o","d","e","x">>, <<"o","p","e","r","a","t","o","r">>, <<"o","1"," ">>,
        <<"o","3"," ">>, <<"o","4"," ">>, <<"j","u","k","e","b","o","x">>,
        <<"p","o","i","n","t","-","e">>, <<"u","n","i","v","e","r","s","e">>, <<"g","y","m">>,
        <<"p","l","u","g","i","n">>, <<"s","t","o","r","e">>,
        <<"a","s","s","i","s","t","a","n","t","s"," ","a","p","i">>,
        <<"v","o","i","c","e"," ","m","o","d","e">>, <<"c","a","n","v","a","s">>,
        <<"d","e","e","p"," ","r","e","s","e","a","r","c","h">>, <<"t","a","s","k","s">>,
        <<"p","r","o","j","e","c","t","s">>, <<"m","e","m","o","r","y">>,
        <<"c","u","s","t","o","m"," ","i","n","s","t","r","u","c","t","i","o","n","s">>,
        <<"a","p","i"," ">>, <<"a","c","c","e","s","s"," ","t","o">>,
        <<"w","e","U+2019","r","e"," ","r","e","l","e","a","s","i","n","g">>,
        <<"w","e"," ","a","r","e"," ","r","e","l","e","a","s","i","n","g">> >> >> >>

\* ---------------------------------------------------------- classify_article

\* The inner loop of classify_article: whether some keyword of the list, from
\* position k on, occurs in text.
RECURSIVE AnyKeywordFrom(_, _, _)
AnyKeywordFrom(keywords, k, text) ==
    IF k > Len(keywords) THEN FALSE
    ELSE IF Contains(keywords[k], text) THEN TRUE
    ELSE AnyKeywordFrom(keywords, k + 1, text)

\* The outer loop of classify_article, from rule r on: the category of the
\* first rule with a keyword in text, or None.
RECURSIVE FirstRuleFrom(_, _, _)
FirstRuleFrom(rules, r, text) ==
    IF r > Len(rules) THEN None
    ELSE IF AnyKeywordFrom(rules[r][2], 1, text) THEN rules[r][1]
    ELSE FirstRuleFrom(rules, r + 1, text)

\* A faulty variant: the rules are walked from the last to the first.
RECURSIVE LastRuleFrom(_, _, _)
LastRuleFrom(rules, r, text) ==
    IF r < 1 THEN None
    ELSE IF AnyKeywordFrom(rules[r][2], 1, text) THEN rules[r][1]
    ELSE LastRuleFrom(rules, r - 1, text)

classify_article_reversed(title, url) ==
    LastRuleFrom(CATEGORY_RULES, Len(CATEGORY_RULES), Lower(title \o <<" ">> \o url))

\* classify_article(title, url).
classify_article(title, url) ==
    FirstRuleFrom(CATEGORY_RULES, 1, Lower(title \o <<" ">> \o url))

\* ------------------------------------------- classify_article on its inputs

\* Bound: the number of words of a title.
MaxTitleWords == 2

TitleWords == { <<"O","p","e","n","A","I">>, <<"F","u","n","d","i","n","g">>, <<"C","h","a","t","G","P","T">>, <<"S","e","r","i","e","s">>, <<"A","P","I">>,
                <<"S","a","f","e","t","y">>, <<"R","e","s","e","a","r","c","h">>, <<"M","i","c","r","o","s","o","f","t">>, <<"U","p","d","a","t","e">> }

\* " ".join(words).
RECURSIVE JoinWords(_)
JoinWords(ws) ==
    IF ws = <<>> THEN <<>>
    ELSE IF Len(ws) = 1 THEN ws[1]
    ELSE ws[1] \o <<" ">> \o JoinWords(Tail(ws))

Titles == { JoinWords(ws) : ws \in SeqsUpTo(TitleWords, MaxTitleWords) }

Urls == { <<>>, <<"h","t","t","p","s",":","/","/","o","p","e","n","a","i",".","c","o","m","/","i","n","d","e","x","/","x","/">>, <<"h","t","t","p","s",":","/","/","o","p","e","n","a","i",".","c","o","m","/","i","n","d","e","x","/","c","h","a","t","g","p","t","/">> }

ClassifyInit ==
    /\ c_pc = "call"
    /\ c_title \in Titles
    /\ c_url \in Urls
    /\ c_category = None

ClassifyIdle ==
    /\ c_pc = "idle"
    /\ c_title = <<>>
    /\ c_url = <<>>
    /\ c_category = None

\* One call of classify_article(title, url).
Classify ==
    /\ c_pc = "call"
    /\ c_category' = classify_article(c_title, c_url)
    /\ c_pc' = "done"
    /\ UNCHANGED <<c_title, c_url>>
    /\ UNCHANGED <<fetchVars, raw_file, phase_files, phaseVars, mergeVars>>

\* ------------------------------------------------------------------- config

BASE_URL == <<"h","t","t","p","s",":","/","/","o","p","e","n","a","i",".","c","o","m">>
NEWS_URL == <<"h","t","t","p","s",":","/","/","o","p","e","n","a","i",".","c","o","m","/","n","e","w","s","/","?","s","o","r","t","B","y","=","o","l","d">>

\* A file that does not exist, and the file save_json(path, data) leaves.
Absent == [exists |-> FALSE, data |-> <<>>]
save_json(data) == [exists |-> TRUE, data |-> data]

\* dict.get(k, "") read where a missing key and an empty value behave alike.
Get(d, k) == IF k \in DOMAIN d THEN d[k] ELSE <<>>

\* --------------------------------------------------------------- _normalize

_normalize(raw) ==
    LET title == Or(Or(Get(raw, "title"), Get(raw, "headline")), Get(raw, "name"))
        slug  == Get(raw, "slug")
        url0  == Or(Or(Get(raw, "url"), Get(raw, "href")), Get(raw, "link"))
        url   == IF url0 = <<>> /\ slug # <<>>
                    THEN BASE_URL \o <<"/","i","n","d","e","x","/">> \o slug \o <<"/">>
                 ELSE IF url0 # <<>> /\ StartsWith(url0, <<"/">>)
                    THEN BASE_URL \o url0
                 ELSE url0
        date_str == Or(Or(Or(Get(raw, "publishedAt"), Get(raw, "published_at")),
                          Get(raw, "date")), Get(raw, "createdAt"))
    IN  [title |-> title, url |-> url, date_str |-> date_str]

\* ---------------------------------------------------------------- _next_page

\* Where the regular expression  page=(\d+)  matches at position i of s.
PageMatchAt(s, i) ==
    /\ i + 5 <= Len(s)
    /\ SubSeq(s, i, i + 4) = <<"p","a","g","e","=">>
    /\ s[i + 5] \in Digits

\* The last position of the run of digits that starts at position j of s.
DigitsEnd(s, j) == RunEnd(s, j, Digits)

\* re.search(r"page=(\d+)", s): the position of the first match, 0 for none.
PageSearch(s) ==
    IF \E i \in 1..Len(s) : PageMatchAt(s, i)
        THEN CHOOSE i \in 1..Len(s) :
                 PageMatchAt(s, i) /\ \A j \in 1..(i - 1) : ~PageMatchAt(s, j)
        ELSE 0

\* str(n) for n >= 0.
RECURSIVE IntToStr(_)
IntToStr(n) ==
    LET d == <<"0","1","2","3","4","5","6","7","8","9">>[(n % 10) + 1] IN
    IF n < 10 THEN <<d>> ELSE IntToStr(n \div 10) \o <<d>>

\* re.sub(r"page=\d+", repl, s), from position i on.
RECURSIVE PageSub(_, _, _)
PageSub(s, i, repl) ==
    IF i > Len(s) THEN <<>>
    ELSE IF PageMatchAt(s, i) THEN repl \o PageSub(s, DigitsEnd(s, i + 5) + 1, repl)
    ELSE <<s[i]>> \o PageSub(s, i + 1, repl)

\* _next_page(html, current_url); html.anchor is the href of the anchor the
\* markup parser finds (None when it finds none).
_next_page(html, current_url) ==
    IF html.anchor # None /\ html.anchor # <<>>
        THEN IF StartsWith(html.anchor, <<"/">>) THEN BASE_URL \o html.anchor
             ELSE html.anchor
    ELSE IF Contains(<<"p","a","g","e","=">>, current_url) /\ PageSearch(current_url) # 0
        THEN LET m == PageSearch(current_url)
                 n == StrToInt(SubSeq(current_url, m + 5, DigitsEnd(current_url, m + 5)))
             IN  PageSub(current_url, 1, <<"p","a","g","e","=">> \o IntToStr(n + 1))
    ELSE None

\* ------------------------------------------------------------ cmd_fetch loop

\* A faulty variant: the title comes before the url.
DedupKeyTitleFirst(art) == Or(Get(art, "title"), Get(art, "url"))

\* The dedup key of a record: its url, or its title when the url is empty.
DedupKey(art) == Or(Get(art, "url"), Get(art, "title"))

\* A faulty variant: new counts every record of the page.
DedupLoopCountsAll(page_articles, i, acc) ==
    LET Step(a, art) ==
            LET key == DedupKey(art) IN
            IF key # <<>> /\ key \notin a.seen
                THEN [all_articles |-> Append(a.all_articles, art),
                      seen |-> a.seen \cup {key}, new |-> a.new + 1]
                ELSE [a EXCEPT !.new = @ + 1]
        Fold[k \in (i - 1)..Len(page_articles)] ==
            IF k < i THEN acc ELSE Step(Fold[k - 1], page_articles[k])
    IN  Fold[Len(page_articles)]

\* The for loop over page_articles, from index i on; acc holds all_articles,
\* seen and new.
RECURSIVE DedupLoop(_, _, _)
DedupLoop(page_articles, i, acc) ==
    IF i > Len(page_articles) THEN acc
    ELSE LET art == page_articles[i]
             key == DedupKey(art)
         IN  IF key # <<>> /\ key \notin acc.seen
                 THEN DedupLoop(page_articles, i + 1,
                                [all_articles |-> Append(acc.all_articles, art),
                                 seen |-> acc.seen \cup {key},
                                 new |-> acc.new + 1])
                 ELSE DedupLoop(page_articles, i + 1, acc)

\* The records a page yields: the structured payload normalised, or else the
\* records the markup heuristic finds.
PageArticles(html) ==
    IF html.source = "next_data"
        THEN [i \in 1..Len(html.items) |-> _normalize(html.items[i])]
        ELSE html.items

\* ------------------------------------------------------- the site cmd_fetch crawls

\* Bound: the number of records on one listing page.
MaxPageLen == 2

PAGE1_REL == <<"/","n","e","w","s","/","?","p","a","g","e","=","1">>
PAGE1_URL == BASE_URL \o PAGE1_REL

\* Records of the structured payload: one with a relative url, one with the
\* same url under another title, one with neither title nor url.
RawPool ==
    { [title |-> <<"a">>, url |-> <<"/","a">>, publishedAt |-> <<"2","0","2","0","-","0","3","-","0","1">>],
      [name |-> <<"a","2">>, href |-> <<"h","t","t","p","s",":","/","/","o","p","e","n","a","i",".","c","o","m","/","a">>],
      [date |-> <<"2","0","2","1">>] }

\* A record the markup heuristic yields: it has a title and no link.
MarkupRecord == [title |-> <<"c">>, url |-> <<>>, date_str |-> <<>>]

Anchors == { None, PAGE1_REL, NEWS_URL }

\* What a listing page can be: a structured payload of one or more records,
\* or markup with no record or one; and the next-page anchor found in it.
Htmls ==
    { [source |-> "next_data", items |-> it, anchor |-> a] :
          it \in SeqsUpTo(RawPool, MaxPageLen) \ {<<>>}, a \in Anchors }
    \cup
    { [source |-> "markup", items |-> it, anchor |-> a] :
          it \in {<<>>, <<MarkupRecord>>}, a \in Anchors }

\* What the site serves for every url other than the first two pages.
BeyondHtmls ==
    { [source |-> "markup", items |-> <<>>, anchor |-> None],
      [source |-> "next_data",
       items |-> <<[headline |-> <<"z">>, slug |-> <<"z">>]>>, anchor |-> None],
      [source |-> "next_data",
       items |-> <<[title |-> <<"a">>, url |-> <<"/","a">>]>>, anchor |-> PAGE1_REL] }

\* A page with nothing in it.
NoHtml == [source |-> "markup", items |-> <<>>, anchor |-> None]

Sites == [news : Htmls, page1 : Htmls, beyond : BeyondHtmls]

\* resp.text of a successful GET of url.
SiteHtml(s, url) ==
    IF url = NEWS_URL THEN s.news
    ELSE IF url = PAGE1_URL THEN s.page1
    ELSE s.beyond

\* ------------------------------------------------------------------ cmd_fetch

FetchInit ==
    /\ f_pc = "loop"
    /\ f_url = NEWS_URL
    /\ f_page = 1
    /\ all_articles = <<>>
    /\ seen = {}
    /\ site \in Sites
    /\ f_requests = <<>>
    /\ f_end = "none"

FetchIdle ==
    /\ f_pc = "idle"
    /\ f_url = None
    /\ f_page = 0
    /\ all_articles = <<>>
    /\ seen = {}
    /\ site = [news |-> NoHtml, page1 |-> NoHtml, beyond |-> NoHtml]
    /\ f_requests = <<>>
    /\ f_end = "none"

\* The for loop of one iteration, over the page the site serves for f_url.
Accumulated ==
    DedupLoop(PageArticles(SiteHtml(site, f_url)), 1,
              [all_articles |-> all_articles, seen |-> seen, new |-> 0])

\* A faulty variant: the cache is not written when the loop ends on a failed request.
BreakNoSaveOnError(reason, acc) ==
    /\ all_articles' = acc.all_articles
    /\ seen' = acc.seen
    /\ raw_file' = IF reason \in {"transport_error", "http_error"}
                       THEN raw_file ELSE save_json(acc.all_articles)
    /\ f_end' = reason
    /\ f_pc' = "done"
    /\ f_requests' = Append(f_requests, f_url)
    /\ UNCHANGED <<f_url, f_page, site>>
    /\ UNCHANGED <<classifyVars, phase_files, phaseVars, mergeVars>>

\* break, then save_json(RAW_PATH, all_articles).
BreakAndSave(reason, acc) ==
    /\ all_articles' = acc.all_articles
    /\ seen' = acc.seen
    /\ raw_file' = save_json(acc.all_articles)
    /\ f_end' = reason
    /\ f_pc' = "done"
    /\ f_requests' = Append(f_requests, f_url)
    /\ UNCHANGED <<f_url, f_page, site>>
    /\ UNCHANGED <<classifyVars, phase_files, phaseVars, mergeVars>>

\* requests.get or raise_for_status raises RequestException.
RequestFails ==
    /\ f_pc = "loop"
    /\ \E err \in {"transport_error", "http_error"} :
           BreakAndSave(err, [all_articles |-> all_articles, seen |-> seen, new |-> 0])

\* Neither extraction path yields a record.
NoArticlesFound ==
    /\ f_pc = "loop"
    /\ PageArticles(SiteHtml(site, f_url)) = <<>>
    /\ BreakAndSave("no_articles", Accumulated)

\* The page yields records, none of them new.
NoNewRecords ==
    /\ f_pc = "loop"
    /\ PageArticles(SiteHtml(site, f_url)) # <<>>
    /\ Accumulated.new = 0
    /\ BreakAndSave("no_new", Accumulated)

\* The page yields new records and no next url, or the current one.
NoNextPage ==
    /\ f_pc = "loop"
    /\ PageArticles(SiteHtml(site, f_url)) # <<>>
    /\ Accumulated.new > 0
    /\ LET next_url == _next_page(SiteHtml(site, f_url), f_url) IN
       /\ next_url = None \/ next_url = <<>> \/ next_url = f_url
       /\ BreakAndSave(IF next_url = f_url THEN "same_url" ELSE "no_next", Accumulated)

\* The page yields new records and another url to go on with.
NextPage ==
    /\ f_pc = "loop"
    /\ PageArticles(SiteHtml(site, f_url)) # <<>>
    /\ Accumulated.new > 0
    /\ LET next_url == _next_page(SiteHtml(site, f_url), f_url) IN
       /\ next_url # None /\ next_url # <<>> /\ next_url # f_url
       /\ f_url' = next_url
    /\ f_page' = f_page + 1
    /\ all_articles' = Accumulated.all_articles
    /\ seen' = Accumulated.seen
    /\ f_requests' = Append(f_requests, f_url)
    /\ UNCHANGED <<f_pc, raw_file, site, f_end>>
    /\ UNCHANGED <<classifyVars, phase_files, phaseVars, mergeVars>>

\* ------------------------------------------------------------------- year_of

WordChars == Digits \cup UpperLetters \cup LowerLetters \cup {"_"}

\* Where  \b(20\d{2}|201[0-9]|200[0-9])\b  matches at position i of s.
YearMatchAt(s, i) ==
    /\ i + 3 <= Len(s)
    /\ s[i] = "2" /\ s[i + 1] = "0" /\ s[i + 2] \in Digits /\ s[i + 3] \in Digits
    /\ (i = 1 \/ s[i - 1] \notin WordChars)
    /\ (i + 3 = Len(s) \/ s[i + 4] \notin WordChars)

\* year_of(date_str); 0 stands for None (the caller tests  if y and ...).
year_of(date_str) ==
    IF date_str = <<>> \/ date_str = None THEN 0
    ELSE IF \E i \in 1..Len(date_str) : YearMatchAt(date_str, i)
        THEN LET m == CHOOSE i \in 1..Len(date_str) :
                          /\ YearMatchAt(date_str, i)
                          /\ \A j \in 1..(i - 1) : ~YearMatchAt(date_str, j)
             IN  StrToInt(SubSeq(date_str, m, m + 3))
    ELSE 0

\* ------------------------------------------------------------------ cmd_phase

\* A faulty variant: phase 1 runs to 2020, so that it overlaps phase 2.
PHASE_RANGES_overlapping ==
    (1 :> <<2015, 2020>>) @@ (2 :> <<2020, 2021>>) @@
    (3 :> <<2022, 2023>>) @@ (4 :> <<2024, 9999>>)

PHASE_RANGES ==
    (1 :> <<2015, 2019>>) @@ (2 :> <<2020, 2021>>) @@
    (3 :> <<2022, 2023>>) @@ (4 :> <<2024, 9999>>)

\* str.strip().
RECURSIVE Strip(_)
Strip(s) ==
    IF s = <<>> THEN s
    ELSE IF s[1] \in Whitespace THEN Strip(Tail(s))
    ELSE IF s[Len(s)] \in Whitespace THEN Strip(SubSeq(s, 1, Len(s) - 1))
    ELSE s

\* A faulty variant: the credential is not stripped.
ApiKeyNoStrip(env) == IF env = None THEN <<>> ELSE env

\* os.environ.get("SILICONFLOW_API_KEY", "").strip()
ApiKey(env) == Strip(IF env = None THEN <<>> ELSE env)

\* The year-range filter: the articles of all whose year lies in the range of
\* phase n, in order.
FilterByYear(all, n) ==
    LET year_from == PHASE_RANGES[n][1]
        year_to   == PHASE_RANGES[n][2]
        InRange(art) ==
            LET y == year_of(Get(art, "date_str")) IN
            y # 0 /\ year_from <= y /\ y <= year_to
    IN  SelectSeq(all, InRange)

\* The classification loop: the articles with a category, each with it set.
RECURSIVE ClassifyLoop(_, _)
ClassifyLoop(in_range, i) ==
    IF i > Len(in_range) THEN <<>>
    ELSE LET art == in_range[i]
             cat == classify_article(Get(art, "title"), Get(art, "url"))
         IN  IF cat # None
                 THEN <<("category" :> cat) @@ art>> \o ClassifyLoop(in_range, i + 1)
                 ELSE ClassifyLoop(in_range, i + 1)

\* What the translation endpoint can answer.  request_error: requests.post or
\* raise_for_status raises; malformed: the reply has no choices, or its content
\* is JSON but no object; not_json: the content is no JSON; object_*: the
\* content is a JSON object with both fields, or with one of them missing.
ReplyKinds == { "request_error", "not_json", "malformed",
                "object_full", "object_no_headline", "object_no_summary" }
Failures == { "request_error", "not_json", "malformed" }

\* The text the endpoint produces for a title.
ZhHeadline(title) == <<"z","h",":">> \o title
ZhSummary(title) == <<"z","h","-","s","u","m","m","a","r","y",":">> \o title

\* A faulty variant: the except branch sets nothing.
TranslateOneNoFallback(art, reply) ==
    IF reply \in Failures THEN art
    ELSE ("headline_zh" :> ZhHeadline(Get(art, "title"))) @@
         ("summary_zh" :> ZhSummary(Get(art, "title"))) @@ art

\* The body of the translation loop for one article: the try block, or the
\* except block when it raises.
TranslateOne(art, reply) ==
    IF reply \in Failures
        THEN ("headline_zh" :> Get(art, "title")) @@ ("summary_zh" :> <<>>) @@ art
    ELSE ("headline_zh" :> (IF reply = "object_no_headline" THEN Get(art, "title")
                            ELSE ZhHeadline(Get(art, "title")))) @@
         ("summary_zh" :> (IF reply = "object_no_summary" THEN <<>>
                           ELSE ZhSummary(Get(art, "title")))) @@ art

\* The translation loop from index i on; acc holds the articles translated and
\* the titles sent so far.
RECURSIVE TranslateLoop(_, _, _, _)
TranslateLoop(classified, replies, i, acc) ==
    IF i > Len(classified) THEN acc
    ELSE TranslateLoop(classified, replies, i + 1,
             [arts |-> Append(acc.arts, TranslateOne(classified[i], replies[i])),
              sent |-> Append(acc.sent, Get(classified[i], "title"))])

\* What a phase invocation that exits early leaves of the latest run.
PhaseExits(n, status) ==
    /\ p_num' = n
    /\ p_exit' = status
    /\ p_classified' = <<>>
    /\ p_replies' = <<>>
    /\ p_sent' = <<>>
    /\ UNCHANGED <<env_key, p_in_range, raw_file, phase_files>>
    /\ UNCHANGED <<classifyVars, fetchVars, mergeVars>>

\* phase_num is not a key of PHASE_RANGES: sys.exit(1).
PhaseBadNumber ==
    /\ p_step <= 4
    /\ \E n \in {5} :
          /\ n \notin DOMAIN PHASE_RANGES
          /\ PhaseExits(n, 1)
    /\ UNCHANGED p_step

\* The credential is missing or blank: sys.exit(1).
PhaseNoKey ==
    /\ p_step <= 4
    /\ p_step \in DOMAIN PHASE_RANGES
    /\ ApiKey(env_key) = <<>>
    /\ PhaseExits(p_step, 1)
    /\ p_step' = p_step + 1

\* raw_articles.json does not exist: sys.exit(1).
PhaseNoCache ==
    /\ p_step <= 4
    /\ p_step \in DOMAIN PHASE_RANGES
    /\ ApiKey(env_key) # <<>>
    /\ ~raw_file.exists
    /\ PhaseExits(p_step, 1)
    /\ p_step' = p_step + 1

\* The phase runs: filter, classify, translate, save.
PhaseRuns ==
    /\ p_step <= 4
    /\ p_step \in DOMAIN PHASE_RANGES
    /\ ApiKey(env_key) # <<>>
    /\ raw_file.exists
    /\ LET in_range   == FilterByYear(raw_file.data, p_step)
           classified == ClassifyLoop(in_range, 1)
       IN  \E replies \in [1..Len(classified) -> ReplyKinds] :
              LET done == TranslateLoop(classified, replies, 1,
                                        [arts |-> <<>>, sent |-> <<>>])
              IN  /\ p_in_range' = [p_in_range EXCEPT ![p_step] = in_range]
                  /\ p_classified' = classified
                  /\ p_replies' = replies
                  /\ p_sent' = done.sent
                  /\ phase_files' = [phase_files EXCEPT ![p_step] = save_json(done.arts)]
    /\ p_num' = p_step
    /\ p_exit' = 0
    /\ p_step' = p_step + 1
    /\ UNCHANGED <<env_key, raw_file>>
    /\ UNCHANGED <<classifyVars, fetchVars, mergeVars>>

\* ------------------------------------------------- the cache cmd_phase reads

\* Bound: the number of articles in raw_articles.json.
MaxRaw == 2

\* The two date formats of the site, for a year y.
NumericDate(y) == IntToStr(y) \o <<"-","0","3","-","0","1">>
MonthDate(y) == <<"J","a","n","u","a","r","y"," ","1","5",","," ">> \o IntToStr(y)

\* The years around each boundary of the four ranges.
BoundaryYears == {2014, 2015, 2019, 2020, 2021, 2022, 2023, 2024}

\* Date strings in which year_of finds no year: no four-digit token, a token
\* outside 2000-2099, or one with no word boundary around it.
YearlessDates == { <<>>, <<"n","o","t"," ","a"," ","d","a","t","e">>, <<"1","9","9","9","-","0","3","-","0","1">>, <<"2","1","0","0","-","0","3","-","0","1">>, <<"2","0","2","0","0","3","0","1">> }

Article(title, url, date_str) == [title |-> title, url |-> url, date_str |-> date_str]

PhasePool ==
    { Article(<<"U","p","d","a","t","e">>, <<>>, NumericDate(2014)),
      Article(<<"F","u","n","d","i","n","g">>, <<>>, NumericDate(2015)),
      Article(<<"A","P","I">>, <<>>, MonthDate(2019)),
      Article(<<"U","p","d","a","t","e">>, <<"h","t","t","p","s",":","/","/","o","p","e","n","a","i",".","c","o","m","/","i","n","d","e","x","/","x","/">>, NumericDate(2020)),
      Article(<<"U","p","d","a","t","e">>, <<>>, MonthDate(2021)),
      Article(<<"U","p","d","a","t","e">>, <<>>, NumericDate(2022)),
      Article(<<"U","p","d","a","t","e">>, <<>>, MonthDate(2023)),
      Article(<<"C","h","a","t","G","P","T">>, <<>>, NumericDate(2024)),
      Article(<<"U","p","d","a","t","e">>, <<>>, MonthDate(2099)),
      Article(<<"F","u","n","d","i","n","g">>, <<>>, <<"n","o","t"," ","a"," ","d","a","t","e">>),
      Article(<<"F","u","n","d","i","n","g">>, <<>>, <<"2","1","0","0","-","0","3","-","0","1">>),
      Article(<<"F","u","n","d","i","n","g">>, <<>>, <<"2","0","2","0","0","3","0","1">>) }

EnvKeys == { None, <<>>, <<" "," ">>, <<" ","s","k","-","1"," ">> }

\* A phase file left by an earlier run.
StalePhaseFile ==
    save_json(<<[title |-> <<"o","l","d">>, url |-> <<>>, date_str |-> <<"2","0","1","6","-","0","1","-","0","1">>,
                 category |-> <<"C","h","a","n","P","i","n">>, headline_zh |-> <<"o","l","d">>,
                 summary_zh |-> <<>>]>>)

PhaseInit ==
    /\ env_key \in EnvKeys
    /\ raw_file \in {Absent} \cup { save_json(l) : l \in SeqsUpTo(PhasePool, MaxRaw) }
    /\ phase_files = [n \in 1..4 |-> IF n \in {1, 3} THEN StalePhaseFile ELSE Absent]
    /\ p_step = 1
    /\ p_num = 0
    /\ p_exit = -1
    /\ p_in_range = [n \in 1..4 |-> <<>>]
    /\ p_classified = <<>>
    /\ p_replies = <<>>
    /\ p_sent = <<>>

PhaseIdle ==
    /\ env_key = None
    /\ p_step = 5
    /\ p_num = 0
    /\ p_exit = -1
    /\ p_in_range = [n \in 1..4 |-> <<>>]
    /\ p_classified = <<>>
    /\ p_replies = <<>>
    /\ p_sent = <<>>

FilesIdle ==
    /\ raw_file = Absent
    /\ phase_files = [n \in 1..4 |-> Absent]

\* ---------------------------------------------------------------- _parse_date

AllDigits(s) == \A i \in 1..Len(s) : s[i] \in Digits

month_map ==
    (<<"j","a","n","u","a","r","y">> :> <<"0","1">>) @@ (<<"f","e","b","r","u","a","r","y">> :> <<"0","2">>) @@ (<<"m","a","r","c","h">> :> <<"0","3">>) @@
    (<<"a","p","r","i","l">> :> <<"0","4">>) @@ (<<"m","a","y">> :> <<"0","5">>) @@ (<<"j","u","n","e">> :> <<"0","6">>) @@
    (<<"j","u","l","y">> :> <<"0","7">>) @@ (<<"a","u","g","u","s","t">> :> <<"0","8">>) @@ (<<"s","e","p","t","e","m","b","e","r">> :> <<"0","9">>) @@
    (<<"o","c","t","o","b","e","r">> :> <<"1","0">>) @@ (<<"n","o","v","e","m","b","e","r">> :> <<"1","1">>) @@ (<<"d","e","c","e","m","b","e","r">> :> <<"1","2">>) @@
    (<<"j","a","n">> :> <<"0","1">>) @@ (<<"f","e","b">> :> <<"0","2">>) @@ (<<"m","a","r">> :> <<"0","3">>) @@
    (<<"a","p","r">> :> <<"0","4">>) @@ (<<"j","u","n">> :> <<"0","6">>) @@ (<<"j","u","l">> :> <<"0","7">>) @@
    (<<"a","u","g">> :> <<"0","8">>) @@ (<<"s","e","p">> :> <<"0","9">>) @@ (<<"o","c","t">> :> <<"1","0">>) @@
    (<<"n","o","v">> :> <<"1","1">>) @@ (<<"d","e","c">> :> <<"1","2">>)

\* str.zfill(2).
ZFill2(s) == IF Len(s) < 2 THEN <<"0">> \o s ELSE s

\* re.match(r"(\d{4})-(\d{2})-(\d{2})", s): whether s starts with the pattern.
NumericMatch(s) ==
    /\ Len(s) >= 10
    /\ AllDigits(SubSeq(s, 1, 4)) /\ s[5] = "-"
    /\ AllDigits(SubSeq(s, 6, 7)) /\ s[8] = "-"
    /\ AllDigits(SubSeq(s, 9, 10))

\* re.match(r"([a-zA-Z]+)\s+(\d{1,2}),?\s+(\d{4})", s): the three groups, or
\* <<>> when s does not start with the pattern.
MonthNameMatch(s) ==
    LET a == RunEnd(s, 1, UpperLetters \cup LowerLetters)
        b == RunEnd(s, a + 1, Whitespace)
        c == RunEnd(s, b + 1, Digits)
        d == IF c + 1 <= Len(s) /\ s[c + 1] = "," THEN c + 1 ELSE c
        e == RunEnd(s, d + 1, Whitespace)
    IN  IF /\ a >= 1
           /\ b > a
           /\ c - b \in {1, 2}
           /\ e > d
           /\ e + 4 <= Len(s)
           /\ AllDigits(SubSeq(s, e + 1, e + 4))
        THEN <<SubSeq(s, 1, a), SubSeq(s, b + 1, c), SubSeq(s, e + 1, e + 4)>>
        ELSE <<>>

\* A faulty variant: the numeric branch always includes the day.
_parse_date_always_day(date_str) ==
    IF date_str = <<>> \/ date_str = None THEN <<>>
    ELSE IF NumericMatch(date_str)
        THEN [year |-> SubSeq(date_str, 1, 4), month |-> SubSeq(date_str, 6, 7),
              day |-> SubSeq(date_str, 9, 10)]
    ELSE LET m2 == MonthNameMatch(date_str) IN
         IF m2 # <<>> /\ Lower(m2[1]) \in DOMAIN month_map
             THEN [year |-> m2[3], month |-> month_map[Lower(m2[1])], day |-> ZFill2(m2[2])]
             ELSE <<>>

\* _parse_date(date_str); the empty dict <<>> stands for None (the caller
\* tests  if not start_date).
_parse_date(date_str) ==
    IF date_str = <<>> \/ date_str = None THEN <<>>
    ELSE IF NumericMatch(date_str)
        THEN IF SubSeq(date_str, 9, 10) # <<"0","1">>
                 THEN [year |-> SubSeq(date_str, 1, 4), month |-> SubSeq(date_str, 6, 7),
                       day |-> SubSeq(date_str, 9, 10)]
                 ELSE [year |-> SubSeq(date_str, 1, 4), month |-> SubSeq(date_str, 6, 7)]
    ELSE LET m2 == MonthNameMatch(date_str) IN
         IF m2 # <<>> /\ Lower(m2[1]) \in DOMAIN month_map
             THEN [year |-> m2[3], month |-> month_map[Lower(m2[1])], day |-> ZFill2(m2[2])]
             ELSE <<>>

\* ------------------------------------------------------------------ _sort_key

\* int(sd.get(k, 0)).
IntOf(sd, k) == IF k \in DOMAIN sd THEN StrToInt(sd[k]) ELSE 0

\* A faulty variant: the key is (year, month).
_sort_key_without_day(event) ==
    <<IntOf(event.start_date, "year"), IntOf(event.start_date, "month"), 0>>

_sort_key(event) ==
    <<IntOf(event.start_date, "year"), IntOf(event.start_date, "month"),
      IntOf(event.start_date, "day")>>

\* Python's < on tuples of three integers.
TupleLess(a, b) ==
    \/ a[1] < b[1]
    \/ a[1] = b[1] /\ a[2] < b[2]
    \/ a[1] = b[1] /\ a[2] = b[2] /\ a[3] < b[3]

\* list.sort(key=_sort_key): a stable sort.  Each event is put after the
\* events already placed whose key is not greater than its own.
RECURSIVE InsertByKey(_, _)
InsertByKey(sorted, event) ==
    IF sorted = <<>> THEN <<event>>
    ELSE IF TupleLess(_sort_key(event), _sort_key(sorted[Len(sorted)]))
        THEN Append(InsertByKey(SubSeq(sorted, 1, Len(sorted) - 1), event),
                    sorted[Len(sorted)])
        ELSE Append(sorted, event)

RECURSIVE SortByKey(_, _)
SortByKey(events, i) ==
    IF i = 0 THEN <<>> ELSE InsertByKey(SortByKey(events, i - 1), events[i])

\* ------------------------------------------------------------------ cmd_merge

OUTPUT_PATH   == <<"contrib", "examples", "new_openai_data.json">>
ORIGINAL_PATH == <<"contrib", "examples", "openai_data.json">>

\* os.path.abspath on a path below PROJECT_ROOT: "." is dropped and ".."
\* removes the component before it.
RECURSIVE NormPath(_, _)
NormPath(path, done) ==
    IF path = <<>> THEN done
    ELSE IF Head(path) = "." THEN NormPath(Tail(path), done)
    ELSE IF Head(path) = ".." /\ done # <<>>
        THEN NormPath(Tail(path), SubSeq(done, 1, Len(done) - 1))
    ELSE NormPath(Tail(path), Append(done, Head(path)))

abspath(path) == NormPath(path, <<>>)

\* A faulty variant: the two paths are compared as written.
SamePathAsWritten(p, q) == p = q

\* The condition the assert of cmd_merge guards against.
SamePath(p, q) == abspath(p) = abspath(q)

\* LINK_HTML.format(url=url); the style attribute and the Chinese label are
\* left out of the markup.
LINK_HTML(url) == <<"<","a"," ","h","r","e","f","=","'">> \o url \o <<"'"," ","t","a","r","g","e","t","=","'","_","b","l","a","n","k","'",">","O","p","e","n","A","I","<","/","a",">">>

\* The event cmd_merge builds from an article and its parsed date.
EventOf(art, start_date) ==
    LET url      == Get(art, "url")
        headline == Or(Get(art, "headline_zh"), Get(art, "title"))
        summary  == Get(art, "summary_zh")
        category == IF "category" \in DOMAIN art THEN art["category"] ELSE <<"C","h","a","n","P","i","n">>
        link     == IF url # <<>> THEN LINK_HTML(url) ELSE <<>>
        body     == IF summary # <<>> THEN summary \o link ELSE link
    IN  [start_date |-> start_date,
         text |-> [headline |-> headline, text |-> body],
         group |-> category]

\* The loop over the articles of one phase file, from index i on; acc holds
\* the events and the titles skipped so far.
RECURSIVE ArticlesLoop(_, _, _)
ArticlesLoop(articles, i, acc) ==
    IF i > Len(articles) THEN acc
    ELSE LET art == articles[i]
             start_date == _parse_date(Get(art, "date_str"))
         IN  IF start_date = <<>>
                 THEN ArticlesLoop(articles, i + 1,
                          [acc EXCEPT !.skipped = Append(@, Get(art, "title"))])
                 ELSE ArticlesLoop(articles, i + 1,
                          [acc EXCEPT !.events = Append(@, EventOf(art, start_date))])

\* The loop over the phases 1..4, from phase n on; acc also holds the phase
\* files read so far.
RECURSIVE PhasesLoop(_, _, _)
PhasesLoop(files, n, acc) ==
    IF n > 4 THEN acc
    ELSE IF ~files[n].exists THEN PhasesLoop(files, n + 1, acc)
    ELSE PhasesLoop(files, n + 1,
             ArticlesLoop(files[n].data, 1, [acc EXCEPT !.read = Append(@, n)]))

\* The title block of the output document.
TitleBlock == [headline |-> <<"O","p","e","n","A","I">>, text |-> <<"t","i","m","e","l","i","n","e">>]

\* The assert fails: AssertionError, before any phase file is read.
MergeAssertionFails ==
    /\ m_pc = "call"
    /\ SamePath(output_path, ORIGINAL_PATH)
    /\ m_result' = "AssertionError"
    /\ m_pc' = "done"
    /\ UNCHANGED <<output_path, m_files, m_read, m_skipped>>
    /\ UNCHANGED <<classifyVars, fetchVars, raw_file, phase_files, phaseVars>>

\* The phase files are read, the events sorted and the document written.
MergeRuns ==
    /\ m_pc = "call"
    /\ ~SamePath(output_path, ORIGINAL_PATH)
    /\ LET got == PhasesLoop(phase_files, 1,
                             [events |-> <<>>, skipped |-> <<>>, read |-> <<>>])
           events == SortByKey(got.events, Len(got.events))
           output == [title |-> TitleBlock, events |-> events]
       IN  /\ m_files' = [m_files EXCEPT ![abspath(output_path)] = save_json(output)]
           /\ m_read' = got.read
           /\ m_skipped' = got.skipped
    /\ m_result' = "ok"
    /\ m_pc' = "done"
    /\ UNCHANGED output_path
    /\ UNCHANGED <<classifyVars, fetchVars, raw_file, phase_files, phaseVars>>

\* ----------------------------------------------- the files cmd_merge reads

\* Bound: the number of articles in one phase file.
MaxPhaseLen == 1

\* The paths OUTPUT_PATH can be configured to: its value in the source, the
\* path of the reference dataset, and another spelling of that path.
OutputPaths ==
    { OUTPUT_PATH, ORIGINAL_PATH,
      <<"contrib", "examples", "..", "examples", "openai_data.json">> }

\* The reference dataset.
OriginalData ==
    [title |-> TitleBlock,
     events |-> <<[start_date |-> [year |-> <<"2","0","1","5">>, month |-> <<"1","2">>],
                   text |-> [headline |-> <<"f","o","u","n","d","e","d">>, text |-> <<>>],
                   group |-> <<"C","h","a","n","P","i","n">>]>>]

\* An article as cmd_phase leaves it in a phase file.
Enriched(title, url, date_str, summary) ==
    [title |-> title, url |-> url, date_str |-> date_str, category |-> <<"C","h","a","n","P","i","n">>,
     headline_zh |-> <<"z","h",":">> \o title, summary_zh |-> summary]

MergePool ==
    { Enriched(<<"a">>, <<"h","t","t","p","s",":","/","/","o","p","e","n","a","i",".","c","o","m","/","a">>, <<"2","0","2","0","-","0","1","-","1","5">>, <<"s">>),
      Enriched(<<"b">>, <<>>, <<"2","0","1","9","-","1","2","-","0","1">>, <<>>),
      Enriched(<<"c">>, <<>>, <<"D","e","c"," ","1",","," ","2","0","1","9">>, <<"s">>) }

MergeFilesInit ==
    /\ m_pc = "call"
    /\ output_path \in OutputPaths
    /\ m_files = (abspath(OUTPUT_PATH) :> Absent) @@
                 (abspath(ORIGINAL_PATH) :> save_json(OriginalData))
    /\ m_result = "none"
    /\ m_read = <<>>
    /\ m_skipped = <<>>
    /\ raw_file = Absent

MergeInit ==
    /\ MergeFilesInit
    /\ phase_files \in
          [1..4 -> {Absent} \cup { save_json(l) : l \in SeqsUpTo(MergePool, MaxPhaseLen) }]

\* -------------------------------------------- the date strings _parse_date meets

Years4 == { <<"2","0","1","9">>, <<"2","0","2","3">> }
Months2 == { <<"0","5">>, <<"1","2">> }
Days2 == { <<"0","1">>, <<"1","7">>, <<"3","1">> }
Suffixes == { <<>>, <<"T","0","0",":","0","0",":","0","0","Z">> }

\* A numeric year-month-day string, with what follows the day.
NumericString(y, m, d, sfx) == y \o <<"-">> \o m \o <<"-">> \o d \o sfx

NumericStrings ==
    { NumericString(y, m, d, sfx) : y \in Years4, m \in Months2, d \in Days2, sfx \in Suffixes }

MonthNames ==
    << <<"J","a","n","u","a","r","y">>, <<"F","e","b","r","u","a","r","y">>, <<"M","a","r","c","h">>, <<"A","p","r","i","l">>, <<"M","a","y">>, <<"J","u","n","e">>, <<"J","u","l","y">>,
       <<"A","u","g","u","s","t">>, <<"S","e","p","t","e","m","b","e","r">>, <<"O","c","t","o","b","e","r">>, <<"N","o","v","e","m","b","e","r">>, <<"D","e","c","e","m","b","e","r">> >>

\* The spellings of month i: the full name and its first three letters, as
\* written and in lower case; and in upper case for May and December.
MonthSpellings(i) ==
    { MonthNames[i], SubSeq(MonthNames[i], 1, 3),
      Lower(MonthNames[i]), Lower(SubSeq(MonthNames[i], 1, 3)) }
    \cup (IF i = 5 THEN { <<"M","A","Y">> } ELSE IF i = 12 THEN { <<"D","E","C","E","M","B","E","R">>, <<"D","E","C">> } ELSE {})

DaySpellings == { <<"1">>, <<"0","7">>, <<"1","7">> }
Commas == { <<>>, <<",">> }

\* A month-name string: the name, a space, the day, an optional comma, a
\* space and the year.
MonthNameString(name, d, comma, y) == name \o <<" ">> \o d \o comma \o <<" ">> \o y

MonthNameStrings ==
    { MonthNameString(name, d, comma, <<"2","0","2","3">>) :
          name \in UNION { MonthSpellings(i) : i \in 1..12 },
          d \in DaySpellings, comma \in Commas }

\* Strings of neither form.
OtherStrings ==
    { <<>>, <<"n","o","t"," ","a"," ","d","a","t","e">>, <<"2","0","2","3","/","0","5","/","1","7">>, <<"1","7"," ","M","a","y"," ","2","0","2","3">>, <<"M","a","y"," ","2","0","2","3">>,
      <<"S","e","p","t"," ","5",","," ","2","0","2","3">>, <<"M","a","y"," ","1","7",",","2","0","2","3">>, <<"M","a","y"," ","1","1","7",","," ","2","0","2","3">>, <<"2","0","2","3","-","5","-","1","7">>,
      <<" ","2","0","2","3","-","0","5","-","1","7">>, <<"M","a","i"," ","1","7",","," ","2","0","2","3">> }

DateStrings == NumericStrings \cup MonthNameStrings \cup OtherStrings

\* An article with a date string of the numeric form.
DatedArticle == Enriched(<<"d","a","t","e","d">>, <<>>, <<"2","0","1","9","-","1","2","-","1","7">>, <<>>)

\* cmd_merge on one phase file of two articles: one with any of the date
\* strings, and DatedArticle before or after it.
MergeDatesInit ==
    /\ MergeFilesInit
    /\ \E s \in DateStrings :
       \E l \in { <<Enriched(<<"p","r","o","b","e">>, <<>>, s, <<>>), DatedArticle>>,
                  <<DatedArticle, Enriched(<<"p","r","o","b","e">>, <<>>, s, <<>>)>> } :
           phase_files = [n \in 1..4 |-> IF n = 1 THEN save_json(l) ELSE Absent]

\* ------------------------------------------------------------ specifications

MergeIdle ==
    /\ m_pc = "idle"
    /\ output_path = <<>>
    /\ m_files = <<>>
    /\ m_result = "none"
    /\ m_read = <<>>
    /\ m_skipped = <<>>

\* classify_article on every title and url of the pools.
ClassifyNext == Classify
InitClassify == ClassifyInit /\ FetchIdle /\ FilesIdle /\ PhaseIdle /\ MergeIdle
SpecClassify == InitClassify /\ [][ClassifyNext]_vars

\* cmd_fetch on every site of the pool.
FetchNext ==
    \/ RequestFails
    \/ NoArticlesFound
    \/ NoNewRecords
    \/ NoNextPage
    \/ NextPage
InitFetch == FetchInit /\ FilesIdle /\ ClassifyIdle /\ PhaseIdle /\ MergeIdle
SpecFetch == InitFetch /\ [][FetchNext]_vars

\* The workflow  phase 1; phase 2; phase 3; phase 4  on every cache of the pool.
PhaseNext ==
    \/ PhaseBadNumber
    \/ PhaseNoKey
    \/ PhaseNoCache
    \/ PhaseRuns
InitPhase == PhaseInit /\ ClassifyIdle /\ FetchIdle /\ MergeIdle
SpecPhase == InitPhase /\ [][PhaseNext]_vars

\* cmd_merge on every content of the phase files of the pool.
MergeNext ==
    \/ MergeAssertionFails
    \/ MergeRuns
InitMerge == MergeInit /\ ClassifyIdle /\ FetchIdle /\ PhaseIdle
SpecMerge == InitMerge /\ [][MergeNext]_vars

\* cmd_merge on a phase file with every date string of the pool.
InitMergeDates == MergeDatesInit /\ ClassifyIdle /\ FetchIdle /\ PhaseIdle
SpecMergeDates == InitMergeDates /\ [][MergeNext]_vars

\* cmd_fetch as a running program: it takes its next step as long as it has one.
SpecFetchLive == SpecFetch /\ WF_vars(FetchNext)

\* -------------------------------------------------------------------- claims

\* The rules with a keyword occurring in text.
MatchingRules(text) ==
    { r \in 1..Len(CATEGORY_RULES) :
        \E k \in 1..Len(CATEGORY_RULES[r][2]) : Contains(CATEGORY_RULES[r][2][k], text) }

\* What the first-matching-rule reading prescribes for text.
FirstMatchCategory(text) ==
    IF MatchingRules(text) = {} THEN None
    ELSE CATEGORY_RULES[CHOOSE r \in MatchingRules(text) :
                            \A q \in MatchingRules(text) : r <= q][1]

\* C1 as stated: classify_article returns the category of the first rule, in
\* the order RongZi, HeZuo, YanJiu, ZhengCe, ChanPin, with a keyword that is a
\* substring of the lowercased concatenation of title and url, and None
\* exactly when no rule has one.
C1_AsStated ==
    c_pc = "done" => c_category = FirstMatchCategory(Lower(c_title \o c_url))

\* C1 amended: the text searched is the lowercased concatenation of title,
\* one space and url; the category returned is that of the first rule in the
\* fixed order with a keyword occurring in it, None exactly when there is
\* none, and a text with both "funding" and "chatgpt" is classified RongZi.
C1_FirstRuleWins ==
    c_pc = "done" =>
        LET text == Lower(c_title \o <<" ">> \o c_url) IN
        /\ c_category = FirstMatchCategory(text)
        /\ (c_category = None) <=> (MatchingRules(text) = {})
        /\ [r \in 1..5 |-> CATEGORY_RULES[r][1]]
              = <<<<"R","o","n","g","Z","i">>, <<"H","e","Z","u","o">>, <<"Y","a","n","J","i","u">>, <<"Z","h","e","n","g","C","e">>, <<"C","h","a","n","P","i","n">>>>
        /\ (Contains(<<"f","u","n","d","i","n","g">>, text) /\ Contains(<<"c","h","a","t","g","p","t">>, text))
              => c_category = <<"R","o","n","g","Z","i">>

\* C1 witness: a title with both a funding and a product keyword has been
\* classified RongZi.
C1_Witness ==
    /\ c_pc = "done"
    /\ Contains(<<"f","u","n","d","i","n","g">>, Lower(c_title))
    /\ Contains(<<"c","h","a","t","g","p","t">>, Lower(c_title))
    /\ c_category = <<"R","o","n","g","Z","i">>

\* The dedup key as the claims state it: the url if it is non-empty,
\* otherwise the title.
ClaimKey(rec) == IF rec.url # <<>> THEN rec.url ELSE rec.title

\* The keys of the records of a list.
ClaimKeys(l) == { ClaimKey(l[i]) : i \in 1..Len(l) }

\* No two records of the accumulated list have the same dedup key.
NoDuplicateKeys ==
    \A i, j \in 1..Len(all_articles) :
        i # j => ClaimKey(all_articles[i]) # ClaimKey(all_articles[j])

\* A step from a state where every record of the page served for the
\* current url has a key already in the list leaves the list as it was.
SeenPageAddsNothing ==
    (/\ f_pc = "loop"
     /\ ClaimKeys(PageArticles(SiteHtml(site, f_url))) \subseteq ClaimKeys(all_articles))
        => all_articles' = all_articles

\* C2: during cmd_fetch the accumulated list never holds two records with
\* the same dedup key, and processing a page whose records were all seen
\* before adds nothing to it, so that the same page fed twice leaves the
\* list as it was after the first time.
C2_DedupIdempotent == []NoDuplicateKeys /\ [][SeenPageAddsNothing]_vars

\* C2 witness: the crawl came back to a url it had requested before, the
\* page yielded nothing new, and the list holds what the first visit put in.
C2_Witness ==
    /\ f_pc = "done"
    /\ f_end = "no_new"
    /\ Len(all_articles) >= 2
    /\ \E i, j \in 1..Len(f_requests) : i < j /\ f_requests[i] = f_requests[j]

\* The records of the pages served for the urls of a list, in order.
RECURSIVE RecordsServed(_)
RecordsServed(urls) ==
    IF urls = <<>> THEN <<>>
    ELSE RecordsServed(SubSeq(urls, 1, Len(urls) - 1))
             \o PageArticles(SiteHtml(site, urls[Len(urls)]))

\* The records of l with a non-empty key that no earlier record of l has.
FirstOfEachKey(l) ==
    LET Keep(i) == /\ ClaimKey(l[i]) # <<>>
                   /\ \A j \in 1..(i - 1) : ClaimKey(l[j]) # ClaimKey(l[i])
        F[i \in 0..Len(l)] ==
            IF i = 0 THEN <<>>
            ELSE IF Keep(i) THEN Append(F[i - 1], l[i]) ELSE F[i - 1]
    IN  F[Len(l)]

\* C8: when a page request fails (transport error or error status) the crawl
\* is over: no step is left to take (no further request, no retry), the
\* failed request was the last one, and the cache holds exactly the
\* deduplicated records of the pages fetched before it, the empty list when
\* the first request failed.
C8_FailureStopsCrawl ==
    (f_pc = "done" /\ f_end \in {"transport_error", "http_error"}) =>
        /\ ~ENABLED FetchNext
        /\ Len(f_requests) = f_page
        /\ raw_file.exists
        /\ raw_file.data
              = FirstOfEachKey(RecordsServed(SubSeq(f_requests, 1, Len(f_requests) - 1)))
        /\ (Len(f_requests) = 1 => raw_file.data = <<>>)

\* C8 witness: the third request failed after two pages had put records in
\* the list, and the cache holds them.
C8_Witness ==
    /\ f_pc = "done"
    /\ f_end = "http_error"
    /\ Len(f_requests) = 3
    /\ Len(raw_file.data) >= 2

\* An iteration that does not end the loop adds a key not seen before.
GoingOnAddsAKey ==
    (f_pc = "loop" /\ f_pc' = "loop" /\ f_requests' # f_requests)
        => (seen \subseteq seen' /\ seen' # seen)

\* The loop has ended for one of its five reasons and the cache is written.
EndedAndSaved ==
    f_pc = "done" =>
        /\ f_end \in {"transport_error", "http_error", "no_articles", "no_new",
                      "no_next", "same_url"}
        /\ raw_file = [exists |-> TRUE, data |-> all_articles]

\* C10: on a site with finitely many article keys the crawl loop ends,
\* whatever the next-page links are: every iteration that does not end the
\* loop adds a key not seen before, the loop ends on a request failure, a
\* page with no articles, a page with no new record, no next-page link or a
\* link to the current url, and the cache is written once it has ended.
C10_CrawlTerminates ==
    /\ <>(f_pc = "done")
    /\ [][GoingOnAddsAKey]_vars
    /\ []EndedAndSaved

\* C10 witness: the crawl went from the first page to page=1 and, the pages
\* having no next-page anchor, on to page=2 and page=3 by incrementing the
\* parameter, where it ended for want of a new record.
C10_Witness ==
    /\ f_pc = "done"
    /\ f_end = "no_new"
    /\ Len(f_requests) = 4
    /\ Contains(<<"p","a","g","e","=","2">>, f_requests[3])
    /\ Contains(<<"p","a","g","e","=","3">>, f_requests[4])

\* The failures of a translation request: a request error, a reply that is
\* no JSON, a malformed reply.
ClaimFailures == { "request_error", "not_json", "malformed" }

\* C3: a translation failure for one article never aborts the batch of
\* cmd_phase.  After a run, the phase file holds every classified article,
\* in order, each with headline_zh and summary_zh set; an article whose
\* request failed has its title as headline_zh and the empty string as
\* summary_zh; and every classified article was sent for translation, those
\* after a failure included.
C3_TranslationFallback ==
    (p_num \in 1..4 /\ p_exit = 0) =>
        LET out == phase_files[p_num].data IN
        /\ phase_files[p_num].exists
        /\ Len(out) = Len(p_classified)
        /\ Len(p_replies) = Len(p_classified)
        /\ p_sent = [i \in 1..Len(p_classified) |-> p_classified[i].title]
        /\ \A i \in 1..Len(out) :
              /\ {"headline_zh", "summary_zh"} \subseteq DOMAIN out[i]
              /\ \A k \in DOMAIN p_classified[i] : out[i][k] = p_classified[i][k]
              /\ p_replies[i] \in ClaimFailures =>
                    /\ out[i]["headline_zh"] = p_classified[i].title
                    /\ out[i]["summary_zh"] = <<>>

\* C3 witness: the first of two requests failed and the second article has
\* its translation all the same.
C3_Witness ==
    /\ p_num \in 1..4 /\ p_exit = 0
    /\ Len(p_classified) = 2
    /\ p_replies[1] = "not_json"
    /\ p_replies[2] = "object_full"
    /\ phase_files[p_num].data[1]["headline_zh"] = p_classified[1].title
    /\ phase_files[p_num].data[2]["headline_zh"] # p_classified[2].title
    /\ Len(p_sent) = 2

\* The year a date string of the pool was built from, 0 when it was built
\* from none.
ClaimYear(date_str) ==
    IF \E y \in BoundaryYears \cup {2099} : date_str \in {NumericDate(y), MonthDate(y)}
        THEN CHOOSE y \in BoundaryYears \cup {2099} :
                 date_str \in {NumericDate(y), MonthDate(y)}
        ELSE 0

\* The phase of a year: 1 for 2015-2019, 2 for 2020-2021, 3 for 2022-2023,
\* 4 for 2024 and later, 0 for none.
ClaimPhaseOf(y) ==
    IF 2015 <= y /\ y <= 2019 THEN 1
    ELSE IF 2020 <= y /\ y <= 2021 THEN 2
    ELSE IF 2022 <= y /\ y <= 2023 THEN 3
    ELSE IF 2024 <= y THEN 4
    ELSE 0

\* The articles of the cache that belong to phase n.
ClaimSelection(n) ==
    LET Belongs(art) == ClaimPhaseOf(ClaimYear(art.date_str)) = n IN
    SelectSeq(raw_file.data, Belongs)

\* The phases that have run: cmd_phase got past its checks.
PhasesRun ==
    IF ApiKey(env_key) # <<>> /\ raw_file.exists THEN 1..(p_step - 1) ELSE {}

\* C4: every phase that has run selected, in its year-range filter, exactly
\* the articles of the cache whose year lies in its own range, so that an
\* article is selected by at most one phase, an article dated 2020-03-01
\* only by phase 2, and an article with no detectable year or a year before
\* 2015 by none.
C4_PhasesPartitionYears ==
    /\ \A n \in PhasesRun : p_in_range[n] = ClaimSelection(n)
    /\ \A i \in 1..Len(raw_file.data) :
          LET art == raw_file.data[i]
              by  == { n \in PhasesRun : \E k \in 1..Len(p_in_range[n]) : p_in_range[n][k] = art }
          IN  /\ Cardinality(by) <= 1
              /\ art.date_str = <<"2","0","2","0","-","0","3","-","0","1">> => by \subseteq {2}
              /\ (art.date_str \in YearlessDates \/ art.date_str = NumericDate(2014))
                    => by = {}

\* C4 witness: the four phases have run on a cache with an article dated
\* 2020-03-01 and one dated 2019; phase 2 selected the first and phase 1 the
\* second, and no other phase selected either.
C4_Witness ==
    /\ p_step = 5
    /\ PhasesRun = 1..4
    /\ Len(raw_file.data) = 2
    /\ raw_file.data[1].date_str = <<"2","0","2","0","-","0","3","-","0","1">>
    /\ raw_file.data[2].date_str = MonthDate(2019)
    /\ p_in_range[2] = <<raw_file.data[1]>>
    /\ p_in_range[1] = <<raw_file.data[2]>>
    /\ p_in_range[3] = <<>> /\ p_in_range[4] = <<>>

\* The credential is absent or blank.
ClaimNoCredential == env_key = None \/ \A i \in 1..Len(env_key) : env_key[i] = " "

\* An invocation of cmd_phase for a valid phase number.
ValidInvocation == p_step' = p_step + 1

\* C9: an invocation of cmd_phase(n) for a valid n, with the credential
\* absent or blank or with no cache file, exits with status 1, sends no
\* translation request and leaves every phase file as it was.
C9_PreconditionsAreFatal ==
    [][(ValidInvocation /\ (ClaimNoCredential \/ ~raw_file.exists)) =>
           /\ p_num' = p_step
           /\ p_exit' = 1
           /\ p_sent' = <<>>
           /\ phase_files' = phase_files
           /\ raw_file' = raw_file]_vars

\* C9 witness: phase 1 was invoked with a blank credential and a cache of
\* two articles; it exited with status 1 and the phase files are those of
\* the earlier run.
C9_Witness ==
    /\ p_num = 1 /\ p_step = 2
    /\ p_exit = 1
    /\ env_key = <<" "," ">>
    /\ raw_file.exists /\ Len(raw_file.data) = 2
    /\ phase_files[1] = StalePhaseFile
    /\ p_sent = <<>>

\* The date of each article of MergePool as three integers, a missing day
\* counted as 0; an event is known by its headline.
ClaimDateKey(event) ==
    IF event.text.headline = <<"z","h",":","a">> THEN <<2020, 1, 15>>
    ELSE IF event.text.headline = <<"z","h",":","b">> THEN <<2019, 12, 0>>
    ELSE <<2019, 12, 1>>

\* One date key is not after another.
ClaimNotAfter(a, b) ==
    \/ a[1] < b[1]
    \/ a[1] = b[1] /\ a[2] < b[2]
    \/ a[1] = b[1] /\ a[2] = b[2] /\ a[3] <= b[3]

\* The events of the document cmd_merge wrote.
EventsWritten == m_files[abspath(output_path)].data.events

\* The number of articles in the phase files that exist.
ClaimArticleCount ==
    Len(phase_files[1].data) + Len(phase_files[2].data)
        + Len(phase_files[3].data) + Len(phase_files[4].data)

\* C5: the events cmd_merge writes are in ascending order of (year, month,
\* day) as integers, a missing day counted as 0, whatever the phase files
\* hold and whichever of them exist; an event with an earlier date precedes
\* one with a later date whichever phase files they came from.
C5_EventsSortedByDate ==
    m_result = "ok" =>
        /\ m_files[abspath(output_path)].exists
        /\ \A i, j \in 1..Len(EventsWritten) :
              i < j => ClaimNotAfter(ClaimDateKey(EventsWritten[i]),
                                     ClaimDateKey(EventsWritten[j]))
        /\ \A n \in 1..4 : phase_files[n].exists =>
              \A i \in 1..Len(phase_files[n].data) :
                  \E k \in 1..Len(EventsWritten) :
                      EventsWritten[k].text.headline = phase_files[n].data[i].headline_zh
        /\ Len(EventsWritten) = ClaimArticleCount
        /\ m_read = SelectSeq(<<1, 2, 3, 4>>, LAMBDA n : phase_files[n].exists)

\* C5 witness: phase 1 holds the article of 2020-01-15, phase 2 the one of
\* 2019-12-01 and phase 4 the one of Dec 1, 2019; the event of phase 2 comes
\* first, then that of phase 4, then that of phase 1.
C5_Witness ==
    /\ m_result = "ok"
    /\ phase_files[1].exists /\ phase_files[1].data # <<>>
    /\ phase_files[1].data[1].date_str = <<"2","0","2","0","-","0","1","-","1","5">>
    /\ phase_files[2].exists /\ phase_files[2].data # <<>>
    /\ phase_files[2].data[1].date_str = <<"2","0","1","9","-","1","2","-","0","1">>
    /\ ~phase_files[3].exists
    /\ phase_files[4].exists /\ phase_files[4].data # <<>>
    /\ phase_files[4].data[1].date_str = <<"D","e","c"," ","1",","," ","2","0","1","9">>
    /\ Len(EventsWritten) = 3
    /\ EventsWritten[1].text.headline = <<"z","h",":","b">>
    /\ EventsWritten[2].text.headline = <<"z","h",":","c">>
    /\ EventsWritten[3].text.headline = <<"z","h",":","a">>

\* The output path is the path of the reference dataset, in either spelling.
ClaimOutputIsReference == output_path \in OutputPaths \ {OUTPUT_PATH}

\* The files as they are before cmd_merge is called.
ClaimFilesBefore ==
    (abspath(OUTPUT_PATH) :> Absent) @@ (abspath(ORIGINAL_PATH) :> save_json(OriginalData))

\* C7: with the output path equal to the path of the reference dataset,
\* cmd_merge ends in an assertion failure, reads no phase file and writes
\* nothing: the reference dataset and every other file are as before.
C7_MergeRefusesReferencePath ==
    (m_pc = "done" /\ ClaimOutputIsReference) =>
        /\ m_result = "AssertionError"
        /\ m_read = <<>>
        /\ m_files = ClaimFilesBefore
        /\ m_files[ORIGINAL_PATH] = save_json(OriginalData)

\* C7 witness: cmd_merge was called with the other spelling of the reference
\* path and a phase file to read; it failed and the reference dataset is as
\* before.
C7_Witness ==
    /\ m_pc = "done"
    /\ output_path # ORIGINAL_PATH
    /\ ClaimOutputIsReference
    /\ phase_files[1].exists /\ phase_files[1].data # <<>>
    /\ m_result = "AssertionError"
    /\ m_files[ORIGINAL_PATH] = save_json(OriginalData)

\* The number of month i in two digits.
ClaimMonthNumber(i) == IF i < 10 THEN <<"0">> \o IntToStr(i) ELSE IntToStr(i)

\* The day of a month-name string in two digits.
ClaimDay(d) == IF d = <<"1">> THEN <<"0","1">> ELSE d

\* The date the claim prescribes for a date string of the pool, by the way
\* the string was built; <<>> for no date.
ClaimDate(s) ==
    IF \E q \in Years4 \X Months2 \X Days2 : \E sfx \in Suffixes :
           s = NumericString(q[1], q[2], q[3], sfx)
        THEN LET q == CHOOSE q \in Years4 \X Months2 \X Days2 : \E sfx \in Suffixes :
                          s = NumericString(q[1], q[2], q[3], sfx)
             IN  IF q[3] = <<"0","1">> THEN [year |-> q[1], month |-> q[2]]
                 ELSE [year |-> q[1], month |-> q[2], day |-> q[3]]
    ELSE IF \E i \in 1..12 : \E name \in MonthSpellings(i) :
            \E d \in DaySpellings : \E comma \in Commas :
                s = MonthNameString(name, d, comma, <<"2","0","2","3">>)
        THEN LET q == CHOOSE q \in (1..12) \X DaySpellings :
                          \E name \in MonthSpellings(q[1]) : \E comma \in Commas :
                              s = MonthNameString(name, q[2], comma, <<"2","0","2","3">>)
             IN  [year |-> <<"2","0","2","3">>, month |-> ClaimMonthNumber(q[1]), day |-> ClaimDay(q[2])]
    ELSE <<>>

\* The articles of phase file 1 the claim has a date for, and the others.
ClaimDated == SelectSeq(phase_files[1].data, LAMBDA art : ClaimDate(art.date_str) # <<>>)
ClaimUndated == SelectSeq(phase_files[1].data, LAMBDA art : ClaimDate(art.date_str) = <<>>)

\* C6: _parse_date gives a string that starts with a numeric year-month-day
\* date its year and month, and its day exactly when the day is not 01;
\* gives a month name (full or three letters, any case), a day of one or
\* two digits, an optional comma and a year, separated by spaces, the year,
\* the number of the month and the day in two digits; and gives no date for
\* the other strings: cmd_merge then emits no event for the article, names
\* it as skipped, and goes on with the articles that follow.
C6_ParseDateFormats ==
    m_result = "ok" =>
        /\ Len(EventsWritten) = Len(ClaimDated)
        /\ { <<EventsWritten[k].text.headline, EventsWritten[k].start_date>> :
                 k \in 1..Len(EventsWritten) }
             = { <<ClaimDated[k].headline_zh, ClaimDate(ClaimDated[k].date_str)>> :
                 k \in 1..Len(ClaimDated) }
        /\ m_skipped = [k \in 1..Len(ClaimUndated) |-> ClaimUndated[k].title]

\* C6 witness: the first article of the phase file has the date string
\* "not a date" and the second a numeric date; the first was skipped and the
\* second has its event, with its day.
C6_Witness ==
    /\ m_result = "ok"
    /\ phase_files[1].data[1].date_str = <<"n","o","t"," ","a"," ","d","a","t","e">>
    /\ m_skipped = << <<"p","r","o","b","e">> >>
    /\ Len(EventsWritten) = 1
    /\ EventsWritten[1].start_date = [year |-> <<"2","0","1","9">>, month |-> <<"1","2">>, day |-> <<"1","7">>]

====
